---- MODULE Spec2Model ----
(***************************************************************************)
(* Model of src/app.py: the /simulate_autocall handler (simulate_autocall),*)
(* the coupon rule (calculate_coupon_payment) and the price lookup with    *)
(* its fallback (get_stock_info_safe).                                     *)
(*                                                                         *)
(* Number encoding.  The program computes with Python floats.  The model   *)
(* uses exact fixed-point integers and inputs on which the float           *)
(* arithmetic of the program is exact (dyadic ratios, prices with few      *)
(* decimals):                                                              *)
(*   - money and prices are integers in units of 1/Scale (Scale = 10000),  *)
(*     so 100.00 is 1000000 and 0.0625 is 625;                             *)
(*   - ratios (barrier, coupon_rate, a drawn return r) are integers in     *)
(*     units of 1/RatioDen (RatioDen = 4), so 0.5 is 2 and -1.0 is -4.     *)
(***************************************************************************)
EXTENDS Integers, Sequences, FiniteSets, TLC

\* ------------------------------------------------------------ encoding
Scale == 100 * 100
RatioDen == 2 * 2

\* ------------------------------------------------------------ bounds
\* A run draws at most MaxShocks non-zero returns; every other draw of
\* np.random.normal is 0.
MaxShocks == 2

\* ------------------------------------------------------------ inputs
Tickers == {"A", "B", "C"}

\* Request bodies: the "stocks" lists that are posted.
StockLists ==
  { <<"A", "B">>, <<"A", "B", "C">>, <<"A", "A", "B">>, <<"A", "B", "C", "A">> }

\* barrier: 0, 0.5, 1, 1.5
Barriers == {0, 2, 4, 6}

\* coupon_rate: 0, 0.25, 1
CouponRates == {0, 1, 4}

\* initial_investment: 1.00 and 1000.00
Investments == {1 * Scale, 1000 * Scale}

\* np.random.normal(0, 0.1): the returns r a draw may produce: -1, -0.5, 0, +1
Returns == {-4, -2, 0, 4}

\* The market: what stock.history(period) can return for a ticker, as the
\* rows of its Close column, oldest first (no rows: hist.empty).  The 1d
\* frame has today's row or nothing.  The 5d frame has older rows for "A"
\* only (closes 98.50 and 97.50; half of half of 97.50 is 24.375, which is
\* not a whole number of cents); for the other tickers it is empty whenever
\* it is asked for.
Close1d(t) == CASE t = "A" -> 100 * Scale
                [] t = "B" -> 200 * Scale
                [] OTHER   -> 50 * Scale

Close5d(t) == CASE t = "A" -> << (197 * Scale) \div 2, (195 * Scale) \div 2 >>
                [] OTHER   -> << >>

History(t, period) ==
  IF period = "1d" THEN { <<>>, << Close1d(t) >> } ELSE { <<>>, Close5d(t) }

\* ------------------------------------------------------------ Python values
\* A dict is the sequence of its items in insertion order.
DictKeys(d) == [i \in 1..Len(d) |-> d[i].k]

DictValues(d) == [i \in 1..Len(d) |-> d[i].v]

DictHas(d, key) == \E i \in 1..Len(d) : d[i].k = key

DictGet(d, key) == d[CHOOSE i \in 1..Len(d) : d[i].k = key].v

\* d[key] = value: replaces the value in place, or appends a new item.
DictSet(d, key, value) ==
  IF DictHas(d, key)
    THEN [i \in 1..Len(d) |-> IF d[i].k = key THEN [k |-> key, v |-> value] ELSE d[i]]
    ELSE Append(d, [k |-> key, v |-> value])

Min(a, b) == IF a < b THEN a ELSE b

\* round(x, 2) on a value in units of 1/Scale: to the nearest cent, a tie
\* going to the even cent (Python rounds half to even).
Round2(x) ==
  LET q == x \div 100
      r == x % 100
  IN  IF r < 50 THEN q * 100
      ELSE IF r > 50 THEN (q + 1) * 100
      ELSE IF q % 2 = 0 THEN q * 100 ELSE (q + 1) * 100

\* a * ratio for a ratio in units of 1/RatioDen
TimesRatio(a, ratio) == (a * ratio) \div RatioDen

\* ------------------------------------------------------------ program constants
\* the 4 of "coupon_rate / 4", "quarter % 4" and "(quarter - 1) // 4"
PeriodsPerYear == 4

\* range(1, 13): 3 years = 12 quarters
TermQuarters == 12

\* len(stocks) != 3
RequiredStocks == 3

\* ------------------------------------------------------------ calculate_coupon_payment
\* mutant: the two sides of the barrier test are swapped
AllAboveBarrier_Swapped(prices, barrier_levels) ==
  \A i \in 1..Min(Len(prices), Len(barrier_levels)) : barrier_levels[i] >= prices[i]

\* mutant: the barrier test is strict
AllAboveBarrier_Strict(prices, barrier_levels) ==
  \A i \in 1..Min(Len(prices), Len(barrier_levels)) : prices[i] > barrier_levels[i]

\* all(price >= barrier for price, barrier in zip(prices, barrier_levels)):
\* zip stops at the shorter of the two lists.
AllAboveBarrier(prices, barrier_levels) ==
  \A i \in 1..Min(Len(prices), Len(barrier_levels)) : prices[i] >= barrier_levels[i]

\* initial_investment * (coupon_rate / 4) if all_above_barrier else 0
CouponAmount(all_above_barrier, coupon_rate, initial_investment) ==
  IF all_above_barrier
    THEN (initial_investment * coupon_rate) \div (RatioDen * PeriodsPerYear)
    ELSE 0

calculate_coupon_payment(prices, barrier_levels, coupon_rate, initial_investment) ==
  LET all_above_barrier == AllAboveBarrier(prices, barrier_levels)
      coupon_amount == CouponAmount(all_above_barrier, coupon_rate, initial_investment)
  IN  [ paid   |-> all_above_barrier,
        amount |-> Round2(coupon_amount),
        reason |-> IF all_above_barrier THEN "All stocks above barrier"
                                        ELSE "One or more stocks below barrier" ]

\* ------------------------------------------------------------ state
VARIABLES
  pc,                   \* where the handler is: idle, fetch, retry, loop, respond, done
  stocks,               \* data.get("stocks", [])
  barrier,              \* float(data.get("barrier", 0.5))
  initial_investment,   \* float(data.get("initial_investment", 100000))
  coupon_rate,          \* float(data.get("coupon_rate", 0.08))
  idx,                  \* position of "for ticker in stocks" (1-based)
  lookups,              \* every stock.history() call made, in order
  initial_prices,       \* dict ticker -> price
  current_prices,       \* dict ticker -> price
  stock_info,           \* dict ticker -> info
  barrier_prices,       \* dict ticker -> price * barrier
  quarters,             \* list of quarter_data
  quarter,              \* the loop variable of "for quarter in range(1, 13)"
  simulation_completed, \* the autocall flag
  shocks,               \* number of non-zero returns drawn so far
  response,             \* what the handler returned: status and body
  coupon_call,          \* a direct call of calculate_coupon_payment: arguments, result
  runs,                 \* two handlers running side by side in one process
  rng                   \* the process-wide generator behind np.random

vars == << pc, stocks, barrier, initial_investment, coupon_rate, idx, lookups,
           initial_prices, current_prices, stock_info, barrier_prices, quarters,
           quarter, simulation_completed, shocks, response, coupon_call, runs, rng >>

\* what a single request to the handler leaves alone
aux_vars == << coupon_call, runs, rng >>

request_vars == << stocks, barrier, initial_investment, coupon_rate >>

fetch_vars == << idx, lookups, initial_prices, current_prices, stock_info >>

loop_vars == << barrier_prices, quarters, quarter, simulation_completed, shocks >>

NoResponse == [status |-> 0, error |-> "", body |-> <<>>]

ErrorResponse(status, error) == [status |-> status, error |-> error, body |-> <<>>]

NoCall == [called |-> FALSE]

NoGenerator == [seed |-> 0, pos |-> 0]

\* The handler has not been entered.
HandlerIdle ==
  /\ pc = "idle"
  /\ stocks = <<>>
  /\ barrier = 0
  /\ initial_investment = 0
  /\ coupon_rate = 0
  /\ idx = 0
  /\ lookups = <<>>
  /\ initial_prices = <<>>
  /\ current_prices = <<>>
  /\ stock_info = <<>>
  /\ barrier_prices = <<>>
  /\ quarters = <<>>
  /\ quarter = 0
  /\ simulation_completed = FALSE
  /\ shocks = 0
  /\ response = NoResponse

Init ==
  /\ HandlerIdle
  /\ coupon_call = NoCall
  /\ runs = <<>>
  /\ rng = NoGenerator

\* ------------------------------------------------------------ simulate_autocall: validation
\* mutant: the upper end of the range is accepted
StrictlyBetween0And1_Closed(x) == 0 < x /\ x <= RatioDen

\* 0 < x < 1 for a ratio in units of 1/RatioDen
StrictlyBetween0And1(x) == 0 < x /\ x < RatioDen

\* The three checks of lines 120-127, in order: "" when the request passes.
ValidationError(s, b, c) ==
  IF Len(s) # RequiredStocks THEN "Exactly 3 stock tickers are required"
  ELSE IF ~StrictlyBetween0And1(b) THEN "Barrier must be between 0 and 1"
  ELSE IF ~StrictlyBetween0And1(c) THEN "Coupon rate must be between 0 and 1"
  ELSE ""

\* POST with an empty body: "if not data" returns 400.
RequestNoBody ==
  /\ UNCHANGED aux_vars
  /\ pc = "idle"
  /\ pc' = "done"
  /\ response' = ErrorResponse(400, "Request body is required")
  /\ UNCHANGED << request_vars, fetch_vars, loop_vars >>

\* POST with the four keys: parse, validate, and start fetching prices.
\* (The posted bodies carry all four keys, so the defaults of data.get are
\* not used; the values are numbers, so float() does not raise.)
Request ==
  /\ UNCHANGED aux_vars
  /\ pc = "idle"
  /\ \E s \in StockLists, b \in Barriers, v \in Investments, c \in CouponRates :
       /\ stocks' = s
       /\ barrier' = b
       /\ initial_investment' = v
       /\ coupon_rate' = c
       /\ IF ValidationError(s, b, c) # ""
            THEN /\ pc' = "done"
                 /\ response' = ErrorResponse(400, ValidationError(s, b, c))
                 /\ idx' = idx
            ELSE /\ pc' = "fetch"
                 /\ response' = response
                 /\ idx' = 1
  /\ UNCHANGED << lookups, initial_prices, current_prices, stock_info, loop_vars >>

\* ------------------------------------------------------------ get_stock_info_safe
\* mutant: iloc[0], the oldest row of the frame
LastClose_First(hist) == hist[1]

\* float(hist['Close'].iloc[-1])
LastClose(hist) == hist[Len(hist)]

\* lines 137-140 after get_stock_info_safe(ticker) returned
StorePrice(ticker, hist) ==
  LET price == LastClose(hist)
  IN  /\ initial_prices' = DictSet(initial_prices, ticker, price)
      /\ current_prices' = DictSet(current_prices, ticker, price)
      /\ stock_info' = DictSet(stock_info, ticker, [price |-> price, last_price |-> price])
      /\ idx' = idx + 1

LogLookup(ticker, period, hist) ==
  Append(lookups, [call |-> idx, ticker |-> ticker, period |-> period, hist |-> hist])

\* hist = stock.history(period="1d") for the next ticker of the list
Lookup1d ==
  /\ UNCHANGED aux_vars
  /\ pc = "fetch"
  /\ idx <= Len(stocks)
  /\ \E hist \in History(stocks[idx], "1d") :
       /\ lookups' = LogLookup(stocks[idx], "1d", hist)
       /\ IF hist = <<>>
            THEN /\ pc' = "retry"
                 /\ UNCHANGED << idx, initial_prices, current_prices, stock_info >>
            ELSE /\ pc' = "fetch"
                 /\ StorePrice(stocks[idx], hist)
  /\ UNCHANGED << request_vars, loop_vars, response >>

\* mutant: a ticker without data is skipped and the loop goes on
Lookup5d_Skip ==
  /\ UNCHANGED aux_vars
  /\ pc = "retry"
  /\ \E hist \in History(stocks[idx], "5d") :
       /\ lookups' = LogLookup(stocks[idx], "5d", hist)
       /\ pc' = "fetch"
       /\ response' = response
       /\ IF hist = <<>>
            THEN /\ idx' = idx + 1
                 /\ UNCHANGED << initial_prices, current_prices, stock_info >>
            ELSE StorePrice(stocks[idx], hist)
  /\ UNCHANGED << request_vars, loop_vars >>

\* hist = stock.history(period="5d"), tried because the 1d frame was empty;
\* empty again raises ValueError, which the handler turns into a 500.
Lookup5d ==
  /\ UNCHANGED aux_vars
  /\ pc = "retry"
  /\ \E hist \in History(stocks[idx], "5d") :
       /\ lookups' = LogLookup(stocks[idx], "5d", hist)
       /\ IF hist = <<>>
            THEN /\ pc' = "done"
                 /\ response' = ErrorResponse(500, "Error fetching data")
                 /\ UNCHANGED << idx, initial_prices, current_prices, stock_info >>
            ELSE /\ pc' = "fetch"
                 /\ response' = response
                 /\ StorePrice(stocks[idx], hist)
  /\ UNCHANGED << request_vars, loop_vars >>

\* ------------------------------------------------------------ simulate_autocall: the simulation
\* mutant: the price is divided by the barrier ratio
BarrierPrices_Divided(prices, b) ==
  [i \in 1..Len(prices) |-> [k |-> prices[i].k, v |-> (prices[i].v * RatioDen) \div b]]

\* {ticker: price * barrier for ticker, price in initial_prices.items()}
BarrierPrices(prices, b) ==
  [i \in 1..Len(prices) |-> [k |-> prices[i].k, v |-> TimesRatio(prices[i].v, b)]]

\* lines 145-148, once every ticker of the list has been fetched
StartSimulation ==
  /\ UNCHANGED aux_vars
  /\ pc = "fetch"
  /\ idx > Len(stocks)
  /\ barrier_prices' = BarrierPrices(initial_prices, barrier)
  /\ quarters' = <<>>
  /\ simulation_completed' = FALSE
  /\ quarter' = 0
  /\ pc' = "loop"
  /\ UNCHANGED << request_vars, fetch_vars, shocks, response >>

\* mutant: the simulated price is rounded before it is carried forward
SimulatedPrices_Rounded(prices, rs) ==
  [i \in 1..Len(prices) |->
     [k |-> prices[i].k, v |-> Round2(TimesRatio(prices[i].v, RatioDen + rs[i]))]]

\* {ticker: price * (1 + r) ...}: rs[i] is the return drawn for the i-th item
SimulatedPrices(prices, rs) ==
  [i \in 1..Len(prices) |->
     [k |-> prices[i].k, v |-> TimesRatio(prices[i].v, RatioDen + rs[i])]]

\* {t: round(p, 2) for t, p in prices.items()}
RoundedPrices(prices) ==
  [i \in 1..Len(prices) |-> [k |-> prices[i].k, v |-> Round2(prices[i].v)]]

\* mutant: quarter // 4 + 1
YearOf_Floor(q) == q \div PeriodsPerYear + 1

\* (quarter - 1) // 4 + 1
YearOf(q) == (q - 1) \div PeriodsPerYear + 1

\* mutant: every quarter is an observation date
IsObservation_Every(q) == q % 1 = 0

\* quarter % 4 == 0
IsObservation(q) == q % PeriodsPerYear = 0

\* mutant: the autocall test is strict
AllAboveInitial_Strict(simulated_prices, initial, tickers) ==
  \A j \in 1..Len(tickers) :
     DictGet(simulated_prices, tickers[j]) > DictGet(initial, tickers[j])

\* all(simulated_prices[ticker] >= initial_prices[ticker] for ticker in stocks)
AllAboveInitial(simulated_prices, initial, tickers) ==
  \A j \in 1..Len(tickers) :
     DictGet(simulated_prices, tickers[j]) >= DictGet(initial, tickers[j])

\* the autocall test of lines 175-180
AutocallTriggered(q, simulated_prices, initial, tickers) ==
  IsObservation(q) /\ AllAboveInitial(simulated_prices, initial, tickers)

\* mutant: the record is numbered from 0
QuarterData_ZeroBased(q, simulated_prices, coupon_result, autocall, investment) ==
  LET base == [ quarter       |-> q - 1,
                year          |-> YearOf(q),
                prices        |-> RoundedPrices(simulated_prices),
                coupon_paid   |-> coupon_result.paid,
                coupon_amount |-> coupon_result.amount,
                reason        |-> coupon_result.reason ]
  IN  IF autocall
        THEN [ quarter            |-> base.quarter,
               year               |-> base.year,
               prices             |-> base.prices,
               coupon_paid        |-> base.coupon_paid,
               coupon_amount      |-> base.coupon_amount,
               reason             |-> base.reason,
               autocall_triggered |-> TRUE,
               redemption_amount  |-> investment ]
        ELSE base

\* lines 165-172, and 181-182 when autocall triggers
QuarterData(q, simulated_prices, coupon_result, autocall, investment) ==
  LET base == [ quarter       |-> q,
                year          |-> YearOf(q),
                prices        |-> RoundedPrices(simulated_prices),
                coupon_paid   |-> coupon_result.paid,
                coupon_amount |-> coupon_result.amount,
                reason        |-> coupon_result.reason ]
  IN  IF autocall
        THEN [ quarter            |-> base.quarter,
               year               |-> base.year,
               prices             |-> base.prices,
               coupon_paid        |-> base.coupon_paid,
               coupon_amount      |-> base.coupon_amount,
               reason             |-> base.reason,
               autocall_triggered |-> TRUE,
               redemption_amount  |-> investment ]
        ELSE base

NonZero(rs) == Cardinality({i \in DOMAIN rs : rs[i] # 0})

\* mutant: the loop has no break
LoopContinues_NoBreak(q, completed) == q < TermQuarters

\* mutant: range(1, 14)
LoopContinues_OneMore(q, completed) == q <= TermQuarters /\ ~completed

\* the loop of "for quarter in range(1, 13)" runs another iteration
LoopContinues(q, completed) == q < TermQuarters /\ ~completed

\* mutant: the initial prices follow the simulated prices
Quarter_Rebased ==
  /\ UNCHANGED aux_vars
  /\ pc = "loop"
  /\ LET q == quarter + 1 IN
     \E rs \in [1..Len(current_prices) -> Returns] :
       /\ shocks + NonZero(rs) <= MaxShocks
       /\ LET simulated_prices == SimulatedPrices(current_prices, rs)
              coupon_result == calculate_coupon_payment(
                                 DictValues(simulated_prices),
                                 DictValues(barrier_prices),
                                 coupon_rate, initial_investment)
              autocall == AutocallTriggered(q, simulated_prices, initial_prices, stocks)
              completed == simulation_completed \/ autocall
          IN  /\ quarter' = q
              /\ shocks' = shocks + NonZero(rs)
              /\ quarters' = Append(quarters,
                               QuarterData(q, simulated_prices, coupon_result,
                                           autocall, initial_investment))
              /\ current_prices' = simulated_prices
              /\ initial_prices' = simulated_prices
              /\ simulation_completed' = completed
              /\ pc' = IF LoopContinues(q, completed) THEN "loop" ELSE "respond"
  /\ UNCHANGED << request_vars, idx, lookups, stock_info, barrier_prices, response >>

\* One iteration of the loop, lines 150-189.
Quarter ==
  /\ UNCHANGED aux_vars
  /\ pc = "loop"
  /\ LET q == quarter + 1 IN
     \E rs \in [1..Len(current_prices) -> Returns] :
       /\ shocks + NonZero(rs) <= MaxShocks
       /\ LET simulated_prices == SimulatedPrices(current_prices, rs)
              coupon_result == calculate_coupon_payment(
                                 DictValues(simulated_prices),
                                 DictValues(barrier_prices),
                                 coupon_rate, initial_investment)
              autocall == AutocallTriggered(q, simulated_prices, initial_prices, stocks)
              completed == simulation_completed \/ autocall
          IN  /\ quarter' = q
              /\ shocks' = shocks + NonZero(rs)
              /\ quarters' = Append(quarters,
                               QuarterData(q, simulated_prices, coupon_result,
                                           autocall, initial_investment))
              /\ current_prices' = simulated_prices
              /\ simulation_completed' = completed
              /\ pc' = IF LoopContinues(q, completed) THEN "loop" ELSE "respond"
  /\ UNCHANGED << request_vars, idx, lookups, initial_prices, stock_info,
                  barrier_prices, response >>

\* mutant: the response says the run completed whenever the loop is over
Respond_AlwaysCompleted ==
  /\ UNCHANGED aux_vars
  /\ pc = "respond"
  /\ pc' = "done"
  /\ response' =
       [ status |-> 200,
         error  |-> "",
         body   |-> [ initial_investment   |-> initial_investment,
                      barrier_level        |-> barrier,
                      annual_coupon_rate   |-> coupon_rate,
                      stock_info           |-> stock_info,
                      initial_prices       |-> RoundedPrices(initial_prices),
                      barrier_prices       |-> RoundedPrices(barrier_prices),
                      quarterly_results    |-> quarters,
                      simulation_completed |-> TRUE ] ]
  /\ UNCHANGED << request_vars, fetch_vars, loop_vars >>

\* lines 191-203: the response of a finished simulation
Respond ==
  /\ UNCHANGED aux_vars
  /\ pc = "respond"
  /\ pc' = "done"
  /\ response' =
       [ status |-> 200,
         error  |-> "",
         body   |-> [ initial_investment   |-> initial_investment,
                      barrier_level        |-> barrier,
                      annual_coupon_rate   |-> coupon_rate,
                      stock_info           |-> stock_info,
                      initial_prices       |-> RoundedPrices(initial_prices),
                      barrier_prices       |-> RoundedPrices(barrier_prices),
                      quarterly_results    |-> quarters,
                      simulation_completed |-> simulation_completed ] ]
  /\ UNCHANGED << request_vars, fetch_vars, loop_vars >>

Next ==
  \/ RequestNoBody
  \/ Request
  \/ Lookup1d
  \/ Lookup5d
  \/ StartSimulation
  \/ Quarter
  \/ Respond

Spec == Init /\ [][Next]_vars

\* ============================================================ properties
\* A simulation is under way or has been returned.
Simulated == pc \in {"loop", "respond"} \/ (pc = "done" /\ response.status = 200)

LastRecord == quarters[Len(quarters)]

HasAutocall(rec) == "autocall_triggered" \in DOMAIN rec

HasRedemption(rec) == "redemption_amount" \in DOMAIN rec

\* After an iteration current_prices holds the simulated prices of the
\* period of the last record.
EveryPriceAtOrAboveBarrier ==
  \A i \in 1..Len(current_prices) :
     current_prices[i].v >= DictGet(barrier_prices, current_prices[i].k)

\* amount is initial_investment * coupon_rate / 4, to the last digit
ExactCoupon(amount) ==
  amount * RatioDen * PeriodsPerYear = initial_investment * coupon_rate

\* amount is a whole number of cents, the nearest to
\* initial_investment * coupon_rate / 4, the even one of two equally near
NearestCentCoupon(amount) ==
  LET den == RatioDen * PeriodsPerYear
      diff == amount * den - initial_investment * coupon_rate
      dist == IF diff < 0 THEN -diff ELSE diff
  IN  /\ amount % 100 = 0
      /\ dist * 2 <= 100 * den
      /\ dist * 2 = 100 * den => (amount \div 100) % 2 = 0

\* C1 as stated: in every period the coupon is paid iff every underlying's
\* simulated price is >= its barrier price, the amount paid is exactly
\* initial_investment * coupon_rate / 4, and an unpaid coupon is 0.
C1_CouponExact ==
  (Simulated /\ quarters # <<>>) =>
     /\ LastRecord.coupon_paid = EveryPriceAtOrAboveBarrier
     /\ LastRecord.coupon_paid => ExactCoupon(LastRecord.coupon_amount)
     /\ ~LastRecord.coupon_paid => LastRecord.coupon_amount = 0

\* C1 amended: in every period the coupon is paid iff every underlying's
\* simulated price is >= its barrier price; the amount paid is
\* initial_investment * coupon_rate / 4 rounded to 2 decimals (half to
\* even), and an unpaid coupon is 0.
C1_CouponRounded ==
  (Simulated /\ quarters # <<>>) =>
     /\ LastRecord.coupon_paid = EveryPriceAtOrAboveBarrier
     /\ LastRecord.coupon_paid => NearestCentCoupon(LastRecord.coupon_amount)
     /\ ~LastRecord.coupon_paid => LastRecord.coupon_amount = 0

\* C1 witness: a period in which one underlying is below its barrier and
\* another is above it, and the coupon is void; the period before paid a
\* coupon whose exact amount is not a whole number of cents.
C1_Witness ==
  /\ Simulated /\ Len(quarters) >= 2
  /\ ~LastRecord.coupon_paid /\ LastRecord.coupon_amount = 0
  /\ \E i \in 1..Len(current_prices) :
        current_prices[i].v < DictGet(barrier_prices, current_prices[i].k)
  /\ \E i \in 1..Len(current_prices) :
        current_prices[i].v > DictGet(barrier_prices, current_prices[i].k)
  /\ quarters[Len(quarters) - 1].coupon_paid
  /\ quarters[Len(quarters) - 1].coupon_amount > 0
  /\ ~ExactCoupon(quarters[Len(quarters) - 1].coupon_amount)

EveryPriceAtOrAboveInitial ==
  \A t \in {stocks[j] : j \in 1..Len(stocks)} :
     DictGet(current_prices, t) >= DictGet(initial_prices, t)

\* C2: on an annual observation period (4, 8, 12) autocall triggers iff
\* every underlying's simulated price is >= its own original initial
\* price, equality included.
C2_AutocallIff ==
  (Simulated /\ quarters # <<>> /\ LastRecord.quarter \in {4, 8, 12}) =>
     /\ HasAutocall(LastRecord) = EveryPriceAtOrAboveInitial
     /\ simulation_completed = EveryPriceAtOrAboveInitial

\* C2 witness: on period 4 every simulated price equals its initial price
\* and the run autocalls there.
C2_Witness ==
  /\ Simulated /\ quarter = 4 /\ Len(quarters) = 4
  /\ current_prices = initial_prices
  /\ HasAutocall(LastRecord) /\ simulation_completed

\* C3 (state part): once autocalled, the last record of the trace carries
\* the autocall marker with redemption_amount = initial_investment, and no
\* earlier record carries a redemption amount.
C3_LastRecordRedeems ==
  simulation_completed =>
     /\ quarters # <<>>
     /\ HasAutocall(LastRecord) /\ HasRedemption(LastRecord)
     /\ LastRecord.redemption_amount = initial_investment
     /\ \A k \in 1..(Len(quarters) - 1) :
           ~HasRedemption(quarters[k]) /\ ~HasAutocall(quarters[k])

\* C3 (step part): once autocalled, no step appends a record, simulates a
\* period or moves the prices.
C3_NoStepAfterAutocall ==
  simulation_completed =>
     /\ quarters' = quarters
     /\ quarter' = quarter
     /\ current_prices' = current_prices
     /\ simulation_completed'

\* C3: once a simulation has autocalled no further record is appended and
\* no further period is simulated; the last record carries the autocall
\* marker and the redemption amount, and no earlier record does.
C3_EarlyStop == [](C3_LastRecordRedeems) /\ [][C3_NoStepAfterAutocall]_vars

\* C3 witness: a returned simulation that autocalled on period 8, after
\* seven records without a redemption amount.
C3_Witness ==
  /\ pc = "done" /\ response.status = 200
  /\ simulation_completed /\ Len(quarters) = 8
  /\ response.body.quarterly_results = quarters

\* C4: the trace never holds more than term_years * periods_per_year = 12
\* records.
C4_TerminationBound == Len(quarters) <= 3 * PeriodsPerYear

\* C4 witness: a run that went the full term.
C4_Witness == Len(quarters) = 12 /\ quarter = 12 /\ ~simulation_completed

\* The request breaks one of the three rules of the validation.
InvalidRequest ==
  \/ Len(stocks) # 3
  \/ barrier <= 0 \/ barrier >= RatioDen
  \/ coupon_rate <= 0 \/ coupon_rate >= RatioDen

\* C5: a request whose number of underlyings is not 3, or whose
\* barrier or coupon_rate is not strictly between 0 and 1, is answered 400
\* at once: no price is looked up, no period is simulated, no record is
\* produced.
C5_ValidationRejects ==
  (pc # "idle" /\ InvalidRequest) =>
     /\ pc = "done"
     /\ response.status = 400 /\ response.body = <<>>
     /\ lookups = <<>> /\ initial_prices = <<>> /\ current_prices = <<>>
     /\ quarter = 0 /\ quarters = <<>>

\* C5 witness: three tickers and a barrier in range, rejected for a
\* coupon_rate of exactly 1 before any lookup.
C5_Witness ==
  /\ pc = "done" /\ response.status = 400
  /\ Len(stocks) = 3 /\ 0 < barrier /\ barrier < RatioDen
  /\ coupon_rate = RatioDen
  /\ lookups = <<>> /\ quarters = <<>>

\* C6: a run whose every drawn return is 0 pays the coupon in each of
\* periods 1 to 4, autocalls on period 4 and returns exactly 4 records, the
\* fourth with redemption_amount = initial_investment.
C6_ZeroReturnRun ==
  (Simulated /\ shocks = 0) =>
     /\ Len(quarters) <= 4
     /\ \A k \in 1..Len(quarters) :
           /\ quarters[k].quarter = k
           /\ quarters[k].coupon_paid
           /\ NearestCentCoupon(quarters[k].coupon_amount)
           /\ k < 4 => ~HasAutocall(quarters[k]) /\ ~HasRedemption(quarters[k])
     /\ pc # "loop" =>
           /\ Len(quarters) = 4
           /\ simulation_completed
           /\ HasAutocall(quarters[4])
           /\ HasRedemption(quarters[4])
           /\ quarters[4].redemption_amount = initial_investment
     /\ pc = "done" =>
           /\ response.body.quarterly_results = quarters
           /\ response.body.simulation_completed

\* C6 witness: a returned zero-return run.
C6_Witness ==
  /\ pc = "done" /\ response.status = 200 /\ shocks = 0
  /\ Len(response.body.quarterly_results) = 4

\* Some ticker's lookup found no data in either window.
LookupFailed ==
  \E i \in 1..Len(lookups) : lookups[i].period = "5d" /\ lookups[i].hist = <<>>

\* C7: when the price lookup fails for one underlying the handler answers
\* with an error at once: nothing is looked up after the failure, no period
\* is simulated, no record is produced and no result body is returned.
C7_LookupFailureAborts ==
  LookupFailed =>
     /\ pc = "done"
     /\ response.status = 500 /\ response.body = <<>>
     /\ lookups[Len(lookups)].period = "5d" /\ lookups[Len(lookups)].hist = <<>>
     /\ barrier_prices = <<>>
     /\ quarter = 0 /\ quarters = <<>>

\* C7 witness: the lookup fails for a later ticker after an earlier
\* ticker's price was found.
C7_Witness ==
  /\ LookupFailed /\ response.status = 500
  /\ initial_prices # <<>>
  /\ idx > 1

\* The history() calls made by the c-th call of get_stock_info_safe.
CallLookups(c) == SelectSeq(lookups, LAMBDA e : e.call = c)

\* C8: a call of get_stock_info_safe asks for the 1d window first, asks
\* for the 5d window only after the 1d window came back empty, makes no
\* third lookup, fails only when both came back empty, and otherwise
\* returns the last close of the first non-empty window.
C8_LookupOrder ==
  /\ \A c \in 1..Len(stocks) :
        LET ls == CallLookups(c)
        IN  /\ Len(ls) <= 2
            /\ Len(ls) >= 1 => ls[1].period = "1d" /\ ls[1].ticker = stocks[c]
            /\ Len(ls) = 2 =>
                  ls[1].hist = <<>> /\ ls[2].period = "5d" /\ ls[2].ticker = stocks[c]
            /\ c < idx =>
                  /\ Len(ls) >= 1
                  /\ ls[Len(ls)].hist # <<>>
  /\ response.status = 500 =>
        LET ls == CallLookups(idx)
        IN  Len(ls) = 2 /\ ls[1].hist = <<>> /\ ls[2].hist = <<>>
  /\ (pc = "fetch" /\ idx > 1) =>
        LET ls == CallLookups(idx - 1)
            h == ls[Len(ls)].hist
        IN  /\ DictGet(initial_prices, stocks[idx - 1]) = h[Len(h)]
            /\ DictGet(stock_info, stocks[idx - 1]).price = h[Len(h)]

\* C8 witness: a call whose 1d window was empty returned the last close of
\* the 5d window, which differs from that window's first row.
C8_Witness ==
  /\ pc = "fetch" /\ idx > 1
  /\ LET ls == CallLookups(idx - 1)
     IN  /\ Len(ls) = 2
         /\ Len(ls[2].hist) > 1
         /\ ls[2].hist[1] # ls[2].hist[Len(ls[2].hist)]
         /\ DictGet(initial_prices, stocks[idx - 1]) = ls[2].hist[Len(ls[2].hist)]

KeySet(d) == {d[i].k : i \in 1..Len(d)}

\* C9 as stated: every simulation that passes validation runs with exactly
\* 3 underlyings: the price state, the barrier schedule and every record's
\* prices cover the same 3 identifiers.
C9_ThreeUnderlyings ==
  Simulated =>
     /\ Cardinality(KeySet(current_prices)) = 3
     /\ KeySet(barrier_prices) = KeySet(current_prices)
     /\ \A k \in 1..Len(quarters) : KeySet(quarters[k].prices) = KeySet(current_prices)

\* C10: a record of a period that is not a multiple of 4 carries neither
\* an autocall marker nor a redemption amount, and the run never stops on
\* such a period.
C10_OnlyAnnualAutocall ==
  /\ \A k \in 1..Len(quarters) :
        quarters[k].quarter % 4 # 0 =>
           ~HasAutocall(quarters[k]) /\ ~HasRedemption(quarters[k])
  /\ (Simulated /\ quarter % 4 # 0) => pc = "loop" /\ ~simulation_completed

\* C10 witness: on period 6 every price is at or above its initial price
\* (after having been below on period 4), no autocall is marked and the
\* run goes on.
C10_Witness ==
  /\ pc = "loop" /\ quarter = 6 /\ Len(quarters) = 6
  /\ EveryPriceAtOrAboveInitial
  /\ ~HasAutocall(LastRecord) /\ ~simulation_completed

\* C11 (state part): during the simulation every barrier price is the
\* looked-up initial price of its ticker times the barrier ratio, and the
\* initial prices are still the looked-up ones.
C11_BarrierIsInitialTimesRatio ==
  Simulated =>
     /\ Len(barrier_prices) = Len(initial_prices)
     /\ \A i \in 1..Len(initial_prices) :
           /\ barrier_prices[i].k = initial_prices[i].k
           /\ barrier_prices[i].v * RatioDen = initial_prices[i].v * barrier
           /\ initial_prices[i].v = DictGet(stock_info, initial_prices[i].k).price

\* C11 (step part): a period step changes neither the initial prices nor
\* the barrier prices, and the autocall it marks on an annual period is
\* decided against those unchanged initial prices.
C11_PeriodStepFrame ==
  pc = "loop" =>
     /\ initial_prices' = initial_prices
     /\ barrier_prices' = barrier_prices
     /\ quarter' % 4 = 0 =>
           simulation_completed' =
              (\A i \in 1..Len(initial_prices) :
                  DictGet(current_prices', initial_prices[i].k) >= initial_prices[i].v)

\* C11: every period step leaves the original initial prices and the
\* barrier schedule unchanged; barrier prices stay initial price x barrier
\* ratio, and the annual autocall comparison uses the original initial
\* prices.
C11_InitialAndBarrierFixed ==
  [](C11_BarrierIsInitialTimesRatio) /\ [][C11_PeriodStepFrame]_vars

\* C11 witness: on period 4 every price is at or above its price of the
\* previous period, one is below its original initial price, and the run
\* does not autocall: only the original initial prices count.
C11_Witness ==
  /\ pc = "loop" /\ quarter = 4 /\ ~simulation_completed
  /\ \A i \in 1..Len(current_prices) :
        current_prices[i].v >= quarters[3].prices[i].v
  /\ \E i \in 1..Len(current_prices) :
        current_prices[i].v < initial_prices[i].v
  /\ barrier_prices # <<>>

\* The prices new are the prices old, each multiplied by (1 + r) for some
\* return r a draw can produce.
AdvancedFrom(old, new) ==
  /\ Len(new) = Len(old)
  /\ \E rs \in [1..Len(old) -> Returns] :
        \A i \in 1..Len(old) :
           /\ new[i].k = old[i].k
           /\ new[i].v * RatioDen = old[i].v * (RatioDen + rs[i])

\* C12 as stated: for every period n > 1 each simulated price is the price
\* recorded for that underlying in the record of period n-1, multiplied by
\* (1 + r).
C12_FromRecordedPrices ==
  [][(pc = "loop" /\ quarter >= 1) => AdvancedFrom(LastRecord.prices, current_prices')]_vars

\* C12 amended (step part): a period step multiplies each price of the
\* price state, as the previous step left it (not rounded), by (1 + r);
\* it is the only step of a simulation that changes the price state, and it
\* advances the period by one.
C12_StepCarriesForward ==
  /\ pc = "loop" =>
        /\ quarter' = quarter + 1
        /\ AdvancedFrom(current_prices, current_prices')
        /\ quarters'[Len(quarters')].prices = RoundedPrices(current_prices')
  /\ pc \in {"respond", "done"} => current_prices' = current_prices

\* C12 amended: the price state is carried forward between periods: the
\* basis of period 1 is the initial prices, and for n > 1 each simulated
\* price is the unrounded simulated price of period n-1 (the record of
\* period n-1 holds it rounded to 2 decimals) multiplied by (1 + r); the
\* price state changes exactly once per period.
C12_PriceStateCarried ==
  /\ []((pc = "loop" /\ quarter = 0) => current_prices = initial_prices)
  /\ [][C12_StepCarriesForward]_vars

\* C12 witness: a period has been simulated from a price state that
\* differs from the prices of the record of the period before.
C12_Witness ==
  /\ Simulated /\ Len(quarters) >= 2
  /\ \E i \in 1..Len(current_prices) :
        /\ quarters[Len(quarters) - 1].prices[i].v # current_prices[i].v
        /\ LastRecord.prices[i].v = quarters[Len(quarters) - 1].prices[i].v
        /\ LastRecord.prices[i].v # current_prices[i].v

\* Some record of the trace carries the autocall marker.
SomeAutocall == \E k \in 1..Len(quarters) : HasAutocall(quarters[k])

\* C13 (state part): when the loop is over the run is in exactly one of
\* two terminal states: autocalled, with the marker on the last record of
\* period 4, 8 or 12, or matured, with 12 records and no marker; the flag
\* simulation_completed, also in the response, is true in the first and
\* false in the second.
C13_TerminalState ==
  (pc = "respond" \/ (pc = "done" /\ response.status = 200)) =>
     /\ simulation_completed =
           (HasAutocall(LastRecord) /\ Len(quarters) \in {4, 8, 12})
     /\ ~simulation_completed = (Len(quarters) = 12 /\ ~SomeAutocall)
     /\ pc = "done" =>
           /\ response.body.simulation_completed = simulation_completed
           /\ response.body.quarterly_results = quarters

\* C13 (step part): a run past price lookup is in its loop only while an
\* iteration remains (fewer than 12 periods done, no autocall), the step
\* that returns the response can be taken once the loop is over, and each
\* step brings the return nearer: a loop iteration moves to the next of the
\* 12 periods, and the step after the loop returns the response.
C13_NeverStuck ==
  /\ pc = "loop" => quarter < 12 /\ ~simulation_completed
  /\ pc = "respond" => ENABLED Respond

C13_Advances ==
  /\ pc = "loop" =>
        /\ quarter' = quarter + 1 /\ quarter' <= 12
        /\ pc' \in {"loop", "respond"}
  /\ pc = "respond" => pc' = "done" /\ response'.status = 200

\* C13: every run that passes validation and price lookup ends (it
\* returns after at most 12 loop iterations and one more step), and ends
\* in exactly one terminal state: autocalled on period 4, 8 or 12, or
\* matured after exactly 12 records; simulation_completed is true iff the
\* run ended via autocall.
C13_EndsInOneTerminalState ==
  /\ [](C13_TerminalState /\ C13_NeverStuck)
  /\ [][C13_Advances]_vars

\* C13 witness: a returned run that matured: 12 records, no autocall, flag
\* false.
C13_Witness ==
  /\ pc = "done" /\ response.status = 200
  /\ Len(quarters) = 12 /\ ~SomeAutocall
  /\ ~response.body.simulation_completed

\* C14 as stated: a period step never starts from a price state holding a
\* non-positive price: the step fails, nothing is simulated from that
\* price and the run aborts with an error.
C14_NonPositiveAborts ==
  [][(pc = "loop" /\ \E i \in 1..Len(current_prices) : current_prices[i].v <= 0) =>
        /\ quarters' = quarters
        /\ current_prices' = current_prices
        /\ pc' = "done" /\ response'.status = 500]_vars

\* C16: the year of every record is the ceiling of period / 4: the least
\* y with 4 * y >= period.
C16_YearIsCeiling ==
  \A k \in 1..Len(quarters) :
     /\ 4 * quarters[k].year >= quarters[k].quarter
     /\ 4 * (quarters[k].year - 1) < quarters[k].quarter

\* C16 witness: a full-term trace: periods 4 and 5 fall in years 1 and 2,
\* periods 8 and 9 in years 2 and 3, period 12 in year 3.
C16_Witness ==
  /\ Len(quarters) = 12
  /\ quarters[4].year = 1 /\ quarters[5].year = 2
  /\ quarters[8].year = 2 /\ quarters[9].year = 3
  /\ quarters[12].quarter = 12 /\ quarters[12].year = 3

\* C18: a record that carries the autocall marker also carries the coupon
\* of its period, paid in full.
C18_AutocallPaysCoupon ==
  \A k \in 1..Len(quarters) :
     HasAutocall(quarters[k]) =>
        /\ quarters[k].coupon_paid
        /\ NearestCentCoupon(quarters[k].coupon_amount)
        /\ quarters[k].coupon_amount > 0
        /\ quarters[k].reason = "All stocks above barrier"

\* C18 witness: the loop has just ended on an autocall of period 8 whose
\* record holds the paid coupon; initial prices are positive and the
\* barrier ratio is strictly between 0 and 1.
C18_Witness ==
  /\ pc = "respond" /\ Len(quarters) = 8
  /\ HasAutocall(LastRecord) /\ LastRecord.coupon_paid
  /\ \A i \in 1..Len(initial_prices) : initial_prices[i].v > 0
  /\ 0 < barrier /\ barrier < RatioDen

\* C19 (state part): the k-th record of the trace is the record of period
\* k, and the trace has one record per simulated period.
C19_GapFree ==
  /\ Len(quarters) = quarter
  /\ \A k \in 1..Len(quarters) : quarters[k].quarter = k

\* C19 (step part): a step leaves the trace as it is or appends one record
\* to it, and a period step appends exactly one.
C19_AppendOnly ==
  /\ \/ quarters' = quarters
     \/ /\ pc = "loop"
        /\ Len(quarters') = Len(quarters) + 1
        /\ SubSeq(quarters', 1, Len(quarters)) = quarters
  /\ pc = "loop" => Len(quarters') = Len(quarters) + 1

\* C19: the trace is append-only and gap-free: the k-th record has period
\* index k, records are never modified or removed by later steps, and each
\* period step appends exactly one record.
C19_TraceAppendOnlyGapFree == [](C19_GapFree) /\ [][C19_AppendOnly]_vars

\* C19 witness: a returned full-term trace whose seventh and twelfth
\* records are those of periods 7 and 12.
C19_Witness ==
  /\ pc = "done" /\ response.status = 200
  /\ Len(response.body.quarterly_results) = 12
  /\ quarters[7].quarter = 7 /\ quarters[12].quarter = 12

\* ============================================================ calculate_coupon_payment called directly
\* The lists given to the function hold at most MaxLen numbers.
MaxLen == 3

\* prices and barrier levels the lists are made of: 25, 50, 100
EvalPrices == {25 * Scale, 50 * Scale, 100 * Scale}

EvalLists == UNION { [1..n -> EvalPrices] : n \in 0..MaxLen }

\* The caller picks the four arguments.
InitCoupon ==
  /\ HandlerIdle
  /\ runs = <<>>
  /\ rng = NoGenerator
  /\ \E prices \in EvalLists, barrier_levels \in EvalLists,
        rate \in {c \in CouponRates : StrictlyBetween0And1(c)}, investment \in Investments :
        coupon_call = [ called |-> FALSE,
                        prices |-> prices,
                        barrier_levels |-> barrier_levels,
                        coupon_rate |-> rate,
                        initial_investment |-> investment ]

\* The call, lines 92-105.  With lists of numbers nothing in the try block
\* raises, so the except branch is not taken and the dict is returned.
EvaluateCoupon ==
  /\ ~coupon_call.called
  /\ coupon_call' =
       [ called |-> TRUE,
         prices |-> coupon_call.prices,
         barrier_levels |-> coupon_call.barrier_levels,
         coupon_rate |-> coupon_call.coupon_rate,
         initial_investment |-> coupon_call.initial_investment,
         raised |-> FALSE,
         result |-> calculate_coupon_payment(coupon_call.prices,
                                             coupon_call.barrier_levels,
                                             coupon_call.coupon_rate,
                                             coupon_call.initial_investment) ]
  /\ UNCHANGED << pc, request_vars, fetch_vars, loop_vars, response, runs, rng >>

NextCoupon == EvaluateCoupon

SpecCoupon == InitCoupon /\ [][NextCoupon]_vars

\* C17 as stated: when the price list and the barrier list do not cover
\* the same underlyings (their lengths differ), the call fails instead of
\* returning a coupon outcome.
C17_ShapeMismatchFails ==
  (coupon_call.called /\ Len(coupon_call.prices) # Len(coupon_call.barrier_levels)) =>
     coupon_call.raised

\* ============================================================ two requests in one process
\* np.random is one generator for the whole process: every handler that
\* calls np.random.normal (line 153) takes the next numbers of the same
\* stream.  The generator is modelled seeded: the stream is a fixed function
\* of the seed, and rng.pos counts the numbers taken from it so far.  Two
\* handlers are past validation and price lookup, both for the same
\* request, and run their loops side by side.  No lock is held across the
\* dict comprehension of lines 152-155, so the handlers interleave at every
\* single call of np.random.normal: one call per ticker, three per loop
\* iteration.  The rest of an iteration touches only the handler's locals.

\* The seeds tried are 0..MaxSeed.
MaxSeed == 11

RunIds == {1, 2}

\* The n-th number of the stream (n from 0): a return of -0.5 at the
\* position the seed names, 0 everywhere else.
Stream(seed, n) == IF n = seed THEN -2 ELSE 0

\* the request both handlers serve, and the prices both looked up
TwoRequest ==
  [ stocks |-> <<"A", "B", "C">>,
    barrier |-> RatioDen \div 2,
    coupon_rate |-> RatioDen \div 4,
    initial_investment |-> 1000 * Scale ]

TwoInitialPrices ==
  [i \in 1..Len(TwoRequest.stocks) |->
     [k |-> TwoRequest.stocks[i], v |-> Close1d(TwoRequest.stocks[i])]]

\* lines 130-148 for such a handler: its own dicts, list and flag
NewRun ==
  [ pc |-> "loop",
    quarter |-> 0,
    current_prices |-> TwoInitialPrices,
    drawn |-> <<>>,
    quarters |-> <<>>,
    simulation_completed |-> FALSE ]

\* The next n numbers of the stream from position pos: what one handler's
\* iteration draws when no other handler draws in between.
NextDraws(g, n) == [i \in 1..n |-> Stream(g.seed, g.pos + i - 1)]

\* One iteration of the loop, lines 150-189, on a handler's own locals,
\* with the returns rs its calls of np.random.normal gave, one per ticker.
RunStep(run, rs) ==
  LET q == run.quarter + 1
      simulated_prices == SimulatedPrices(run.current_prices, rs)
      coupon_result == calculate_coupon_payment(
                         DictValues(simulated_prices),
                         DictValues(BarrierPrices(TwoInitialPrices, TwoRequest.barrier)),
                         TwoRequest.coupon_rate, TwoRequest.initial_investment)
      autocall == AutocallTriggered(q, simulated_prices, TwoInitialPrices,
                                    TwoRequest.stocks)
      completed == run.simulation_completed \/ autocall
  IN  [ pc |-> IF LoopContinues(q, completed) THEN "loop" ELSE "done",
        quarter |-> q,
        current_prices |-> simulated_prices,
        drawn |-> <<>>,
        quarters |-> Append(run.quarters,
                            QuarterData(q, simulated_prices, coupon_result, autocall,
                                        TwoRequest.initial_investment)),
        simulation_completed |-> completed ]

InitTwo ==
  /\ HandlerIdle
  /\ coupon_call = NoCall
  /\ runs = [r \in RunIds |-> NewRun]
  /\ \E seed \in 0..MaxSeed : rng = [seed |-> seed, pos |-> 0]

\* Handler r makes one call of np.random.normal (line 153), for the next
\* ticker of its dict comprehension: it takes the next number of the shared
\* stream, whichever handler took the one before.
RunDraw(r) ==
  /\ runs[r].pc = "loop"
  /\ Len(runs[r].drawn) < Len(runs[r].current_prices)
  /\ runs' = [runs EXCEPT ![r].drawn = Append(@, Stream(rng.seed, rng.pos))]
  /\ rng' = [rng EXCEPT !.pos = @ + 1]
  /\ UNCHANGED << pc, request_vars, fetch_vars, loop_vars, response, coupon_call >>

\* Handler r, its comprehension complete, runs the rest of the iteration
\* (lines 152-189) on the returns it drew.
RunQuarter(r) ==
  /\ runs[r].pc = "loop"
  /\ Len(runs[r].drawn) = Len(runs[r].current_prices)
  /\ runs' = [runs EXCEPT ![r] = RunStep(@, @.drawn)]
  /\ UNCHANGED << pc, request_vars, fetch_vars, loop_vars, response, coupon_call, rng >>

NextTwo == \E r \in RunIds : RunDraw(r) \/ RunQuarter(r)

SpecTwo == InitTwo /\ [][NextTwo]_vars

\* The trace a handler returns when it is the only one drawing from the
\* stream, from the stream's start.
RECURSIVE AloneFrom(_, _)
AloneFrom(run, g) ==
  IF run.pc = "done"
    THEN run.quarters
    ELSE AloneFrom(RunStep(run, NextDraws(g, Len(run.current_prices))),
                   [g EXCEPT !.pos = @ + Len(run.current_prices)])

AloneTrace(seed) == AloneFrom(NewRun, [seed |-> seed, pos |-> 0])

\* C15 as stated: for a fixed random source, the trace a run returns is
\* the trace it returns when it runs alone, whatever steps and single
\* draws of another run are interleaved with its own.
C15_RunsIndependent ==
  \A r \in DOMAIN runs :
     runs[r].pc = "done" => runs[r].quarters = AloneTrace(rng.seed)
====
